---- MODULE Spec2Model ----
(***************************************************************************)
(* CopyJedi: the paste-detection heuristic of src/copyjedi/src/extension.js *)
(* as a state machine.  Two listeners are registered on the editor's        *)
(* onDidChangeTextDocument event: the paste tracker (setupPasteTracking,    *)
(* an async handler with one suspension point, the clipboard read) and the  *)
(* keyboard tracker (setupKeyboardTracking).  Times are in milliseconds.    *)
(***************************************************************************)
EXTENDS Integers, Sequences, FiniteSets, TLC

\* ------------------------------------------------------------------ bounds
\* How many steps of its clock each specification runs for (module load is
\* time 0).
MaxTicks == 6
RuleSteps == 1
DocSteps == 1
BatchSteps == 2
StatsSteps == 2
MaxDays == 2
SyncSteps == 2
MaxCommands == 1
MaxRequests == 3
FlagSteps == 4
QueueSteps == 2
OutageSteps == 2
ClientSteps == 2
PendingCommands == 2
PendingSteps == 6

\* ------------------------------------------------------- program constants
ThrottleMs == 300
KeypressGapMs == 300
FlagResetMs == 500
TinyLen == 5
ShortcutMinLen == 10
LargeLen == 50
MultiLineParts == 2
BulkColumns == 10
ClipPrefixLen == 20
DocHeadLen == 1000
InitialSyncMs == 30000
SYNC_INTERVAL_MS == 300000
RetryMs == 1800000

RECURSIVE GCD(_, _)
GCD(a, b) == IF b = 0 THEN a ELSE GCD(b, a % b)

\* The clock's granularity: the coarsest step that divides every delay the
\* program compares against (the 300ms gaps and the 500ms timer).
Tick == GCD(GCD(ThrottleMs, KeypressGapMs), FlagResetMs)

Min(a, b) == IF a < b THEN a ELSE b

Abs(n) == IF n < 0 THEN 0 - n ELSE n

\* ------------------------------------------------------------ JS strings
\* String.prototype.includes
Includes(t, p) ==
    \E i \in 1..(Len(t) - Len(p) + 1) : SubSeq(t, i, i + Len(p) - 1) = p

\* String.prototype.substring(0, end)
Substring(s, end) == SubSeq(s, 1, Min(Len(s), end))

\* text.split("\n").length
SplitLength(t) == Cardinality({i \in 1..Len(t) : SubSeq(t, i, i) = "\n"}) + 1

LowerChar(c) ==
    CASE c = "A" -> "a" [] c = "B" -> "b" [] c = "C" -> "c" [] c = "D" -> "d"
      [] c = "E" -> "e" [] c = "F" -> "f" [] c = "G" -> "g" [] c = "H" -> "h"
      [] c = "I" -> "i" [] c = "J" -> "j" [] c = "K" -> "k" [] c = "L" -> "l"
      [] c = "M" -> "m" [] c = "N" -> "n" [] c = "O" -> "o" [] c = "P" -> "p"
      [] c = "Q" -> "q" [] c = "R" -> "r" [] c = "S" -> "s" [] c = "T" -> "t"
      [] c = "U" -> "u" [] c = "V" -> "v" [] c = "W" -> "w" [] c = "X" -> "x"
      [] c = "Y" -> "y" [] c = "Z" -> "z" [] OTHER -> c

\* String.prototype.toLowerCase
RECURSIVE ToLowerCase(_)
ToLowerCase(s) ==
    IF Len(s) = 0 THEN ""
    ELSE LowerChar(SubSeq(s, 1, 1)) \o ToLowerCase(SubSeq(s, 2, Len(s)))

RECURSIVE Repeat(_, _)
Repeat(s, n) == IF n = 0 THEN "" ELSE s \o Repeat(s, n - 1)

\* ------------------------------------------------------------- documents
\* A document as the handlers see it: uri.scheme, uri.toString(),
\* languageId and getText().
DocApp == [scheme |-> "file", uri |-> "file:///proj/src/app.js",
           languageId |-> "javascript", text |-> "const x = 1;"]
DocNotes == [scheme |-> "untitled", uri |-> "untitled:Untitled-1",
             languageId |-> "python", text |-> "hello world"]
DocOutput == [scheme |-> "output", uri |-> "output:extension-output-copyjedi",
              languageId |-> "Log", text |-> "x = 1;"]
DocDebugPane == [scheme |-> "file", uri |-> "file:///tmp/Debug-Console.js",
                 languageId |-> "javascript", text |-> "x = 1;"]
DocReadme == [scheme |-> "file", uri |-> "file:///proj/README.md",
              languageId |-> "markdown", text |-> "if (x) { y(); }"]
DocYaml == [scheme |-> "file", uri |-> "file:///proj/ci.yaml",
            languageId |-> "yaml", text |-> "Return: always"]

Docs == {DocApp, DocNotes, DocOutput, DocDebugPane, DocReadme, DocYaml}

\* vscode.window.activeTextEditor: <<>> when there is none, else <<document>>.
Editors == {<<>>} \cup {<<d>> : d \in Docs}

\* ---------------------------------------------------------------- inputs
Pos(l, c) == [line |-> l, character |-> c]
Range(s, e) == [start |-> s, end |-> e]
RangeEmpty == Range(Pos(0, 0), Pos(0, 0))
RangeTen == Range(Pos(0, 0), Pos(0, 10))
RangeFifteen == Range(Pos(0, 5), Pos(0, 20))
RangeBackward == Range(Pos(0, 30), Pos(2, 4))

Change(t, r) == [text |-> t, range |-> r]

\* A change whose payload carries no text: change.text is undefined.
MalformedChange == [range |-> RangeEmpty]

HasText(change) == "text" \in DOMAIN change

TextFoo == "function foo() {\n  return 1;\n}"
TextFooTwo == "function foo() {\n  return 2;\n}"
TextMarker == "// Generated by AI\nfoo();"
TextMarkerLine == "x = 1; // Suggested by bot"
TextEighty == Repeat("abcdefghij", 8)
TextSixty == Repeat("abcdefghij", 6)
TextFifty == Repeat("abcdefghij", 5)
TextThreeLines == Repeat("0123456789012345678\n", 2) \o "0123456789012345"
TextTwoLines == Repeat("0123456789", 3) \o "\n" \o Repeat("0123456789", 3)
TextTwenty == "const y = compute();"
TextEleven == "abcdefghijk"
TextTen == "abcdefghij"
TextShortLines == "a\nb"

Changes ==
    {Change(t, RangeEmpty) :
        t \in {"", "x", "v", "abcd", "foo();", TextShortLines, TextTen, TextEleven,
               TextTwenty, TextMarker, TextMarkerLine, TextFoo, TextFooTwo,
               TextFifty, TextSixty, TextEighty, TextThreeLines, TextTwoLines}}
    \cup {Change(TextEighty, RangeFifteen), Change(TextSixty, RangeTen),
          Change(TextSixty, RangeBackward), Change(TextFifty, RangeFifteen),
          Change("abcd", RangeFifteen), Change(TextMarker, RangeFifteen)}

Texts == {c.text : c \in Changes}

\* What the system clipboard may hold.
Clipboards == {"", "function foo() {", TextFoo, "foo();", "abcd", "zzz"}

\* ------------------------------------------------------ pure functions
CodeKeywords ==
    {"function", "const", "let", "var", "import", "export", "if", "for",
     "while", "class", "=>", "return"}

CodeSymbols ==
    {"{", "}", "[", "]", "(", ")", ";", "=", "+", "-", "*", "/", "%"}

\* The first regular expression is case-insensitive, the second a character class.
hasCodePatterns(text) ==
    \/ \E k \in CodeKeywords : Includes(ToLowerCase(text), k)
    \/ \E c \in CodeSymbols : Includes(text, c)

copilotPatterns ==
    {"// Copilot suggestion", "// Suggested by", "// Generated by",
     "// Via GitHub Copilot", "<!-- GitHub Copilot", "/* Copilot suggestion",
     "// This code was suggested by", "// Auto-generated"}

isCopilotCode(text) == \E pattern \in copilotPatterns : Includes(text, pattern)

nonEditableTypes ==
    {"log", "output", "scm", "debug", "terminal", "plaintext", "markdown",
     "json", "jsonc", "git-commit", "git-rebase", "search-result", "diff",
     "shellscript", "console"}

ExtensionPaneWords ==
    {"extension-output", "debug-console", "output-channel", "extension-editor"}

\* Mutant: only the URI scheme is tested.
isEditableDocumentSchemeOnly(document) ==
    document.scheme \in {"file", "untitled"}

\* The closing allow-list of programming languages only logs: it rejects nothing.
isEditableDocument(document) ==
    /\ document.scheme \in {"file", "untitled"}
    /\ ~\E w \in ExtensionPaneWords : Includes(ToLowerCase(document.uri), w)
    /\ document.languageId \notin nonEditableTypes

\* clipboard && change.text.includes(clipboard.substring(0, 20))
clipboardMatch(text, clip) ==
    clip # "" /\ Includes(text, Substring(clip, ClipPrefixLen))

\* The string tests above, computed once for every input of the model.
TextFacts ==
    [t \in Texts |->
        [length |-> Len(t),
         parts |-> SplitLength(t),
         newline |-> Includes(t, "\n"),
         copilot |-> isCopilotCode(t),
         match |-> [c \in Clipboards |-> clipboardMatch(t, c)]]]

DocFacts ==
    [d \in Docs |->
        [editable |-> isEditableDocument(d),
         code |-> hasCodePatterns(Substring(d.text, DocHeadLen))]]

\* ------------------------------------------------------------ stats record
\* new Date().toDateString() on day number d.
DayNames ==
    <<"Sat Oct 31 2026", "Sun Nov 01 2026", "Mon Nov 02 2026", "Tue Nov 03 2026",
      "Wed Nov 04 2026">>

toDateString(d) == DayNames[d + 1]

\* userId: null
null == "<null>"

\* What generateUserId may return.
UserIds == {"user_k3x9q2m1z", "user_7fh2c0d8a"}

\* The object literal pasteStats is given at module load and at every reset.
FreshStats(date, userId) ==
    [totalPastes |-> 0, totalLinesPasted |-> 0, date |-> date, userId |-> userId]

\* JSON.stringify(pasteStats): the properties in insertion order.
JSONstringify(stats) ==
    <<[key |-> "totalPastes", number |-> stats.totalPastes],
      [key |-> "totalLinesPasted", number |-> stats.totalLinesPasted],
      [key |-> "date", string |-> stats.date],
      [key |-> "userId", string |-> stats.userId]>>

Property(pairs, key) == CHOOSE i \in DOMAIN pairs : pairs[i].key = key

\* JSON.parse of a text that JSON.stringify(pasteStats) wrote.
JSONparse(pairs) ==
    [totalPastes |-> pairs[Property(pairs, "totalPastes")].number,
     totalLinesPasted |-> pairs[Property(pairs, "totalLinesPasted")].number,
     date |-> pairs[Property(pairs, "date")].string,
     userId |-> pairs[Property(pairs, "userId")].string]

\* stats.json: absent, empty, not JSON, or a record the extension wrote.
NoFile == [exists |-> FALSE, kind |-> "none", pairs |-> <<>>]
EmptyFile == [exists |-> TRUE, kind |-> "empty", pairs |-> <<>>]
InvalidFile == [exists |-> TRUE, kind |-> "invalid", pairs |-> <<>>]
StatsFile(stats) == [exists |-> TRUE, kind |-> "json", pairs |-> JSONstringify(stats)]

\* fs.writeFileSync(storagePath, JSON.stringify(pasteStats)); the write succeeds.
savePasteStats(stats) == StatsFile(stats)

\* loadPasteStats: the record in memory and the file afterwards, given the
\* record at module load, the file found, the day and the id generateUserId
\* would return.
loadPasteStats(atLoad, file, day, newId) ==
    IF ~file.exists \/ file.kind # "json"
    THEN LET stats == [atLoad EXCEPT !.userId = newId]
         IN  [stats |-> stats, file |-> savePasteStats(stats), saved |-> TRUE]
    ELSE LET savedStats == JSONparse(file.pairs)
         IN  IF savedStats.date # toDateString(day)
             THEN LET stats ==
                          FreshStats(toDateString(day),
                                     IF savedStats.userId \in {null, ""}
                                     THEN newId ELSE savedStats.userId)
                  IN  [stats |-> stats, file |-> savePasteStats(stats), saved |-> TRUE]
             ELSE [stats |-> savedStats, file |-> file, saved |-> FALSE]

\* ----------------------------------------------------------------- state
VARIABLES
    now,                     \* Date.now()
    isTracking,
    pasteStats,
    lastEditTime,
    lastPasteKeyCombination,
    lastKeypressTime,
    resetTimers,             \* due times of the pending setTimeout callbacks
    activeTextEditor,        \* vscode.window.activeTextEditor
    clipboard,               \* the system clipboard
    suspended,               \* paste handlers awaiting clipboard.readText()
    admitted,                \* history: arrival times of events past the throttle
    lastDetect,              \* history: time of the latest shortcut detection
    consumed,                \* history: a counted paste reset the flag since then
    lastEvent,               \* the change event just handled, if the step was one
    lastRun,                 \* the classification just completed, if the step was one
    today,                   \* the current day, as a number
    statsFile,               \* stats.json in the global storage directory
    savedOn,                 \* history: the day stats.json was last written
    failed,                  \* history: a paste handler ended in its catch
    leaderboardEnabled,      \* the setting copyjedi.leaderboardEnabled
    offlineMode,
    pendingSubmissions,
    lastConnectionAttempt,
    syncTimers,              \* the timeout and the interval of startAutoSync
    syncOps,                 \* requests awaited by the extension and its client
    client,                  \* the fields of the LeaderboardClient instance
    posts,                   \* history: the POST /api/submit requests sent
    submitInvoked,           \* history: the submit command was invoked
    commandsRun,             \* history: how many times it was invoked
    collection,              \* the server's PasteStats collection
    requests,                \* POST /api/submit handlers awaiting the database
    received,                \* how many requests the server has accepted
    accepted,                \* history: the client's POSTs the server has stored
    keySeen,                 \* history: the keyboard listener has recorded an event
    lastCall                 \* the sync step just taken, if the step was one

vars == <<now, isTracking, pasteStats, lastEditTime, lastPasteKeyCombination,
          lastKeypressTime, resetTimers, activeTextEditor, clipboard, suspended,
          admitted, lastDetect, consumed, lastEvent, lastRun, today, statsFile,
          savedOn, failed, leaderboardEnabled, offlineMode, pendingSubmissions,
          lastConnectionAttempt, syncTimers, syncOps, client, posts,
          submitInvoked, commandsRun, collection, requests, received, accepted,
          keySeen, lastCall>>

\* The stats file and the calendar, which the classifier's timing never touches.
diskVars == <<today, statsFile, savedOn>>

\* The leaderboard sync, which the paste handlers never touch.
syncVars ==
    <<leaderboardEnabled, offlineMode, pendingSubmissions, lastConnectionAttempt,
      syncTimers, syncOps, client, posts, submitInvoked, commandsRun>>

\* The leaderboard server and its database.
serverVars == <<collection, requests, received, accepted>>

\* The state of the paste and keyboard listeners.
editVars ==
    <<isTracking, lastEditTime, lastPasteKeyCombination, lastKeypressTime,
      resetTimers, activeTextEditor, clipboard, suspended, admitted, lastDetect,
      consumed, keySeen>>

\* ------------------------------------------------------------ classifier
\* isProbablyPaste reads vscode.window.activeTextEditor when it runs, which
\* is after the clipboard read.
isProbablyPaste(change, clip) ==
    LET facts == TextFacts[change.text]
        isLargeInsertion == facts.length > LargeLen
        isMultiLine == facts.parts > MultiLineParts
        isBulkChange ==
            Abs(change.range.end.character - change.range.start.character)
                > BulkColumns
    IN  /\ ~facts.copilot
        /\ ~(change.text = "" \/ facts.length < TinyLen)
        /\ activeTextEditor # <<>>
        /\ DocFacts[activeTextEditor[1]].editable
        /\ (facts.match[clip] \/ (isLargeInsertion /\ (isMultiLine \/ isBulkChange)))

\* The loop's first test: "Skip very small changes".
SmallChange(change) ==
    TextFacts[change.text].length < TinyLen /\ ~TextFacts[change.text].newline

\* Mutant: the shortcut flag accepts a change of any size.
ShortcutAlone(change) == lastPasteKeyCombination

\* The second disjunct of isPaste.
ShortcutCorroborates(change) ==
    /\ lastPasteKeyCombination
    /\ \/ TextFacts[change.text].length > ShortcutMinLen
       \/ TextFacts[change.text].newline

\* Mutant: no change is skipped as small and the flag needs no minimum size.
ChangeIsPasteAnySize(change, clip) ==
    isProbablyPaste(change, clip) \/ lastPasteKeyCombination

\* One iteration of the loop over event.contentChanges, up to the test of isPaste.
ChangeIsPaste(change, clip) ==
    /\ ~SmallChange(change)
    /\ (isProbablyPaste(change, clip) \/ ShortcutCorroborates(change))

\* The index of the first change without text; 0 when every change has one.
ThrowIndex(changes) ==
    LET bad == {i \in 1..Len(changes) : ~HasText(changes[i])}
    IN  IF bad = {} THEN 0 ELSE CHOOSE i \in bad : \A j \in bad : i <= j

\* Mutant: only the first change that is not skipped as small is classified.
CountedIndexFirstQualifying(changes, clip) ==
    LET t == ThrowIndex(changes)
        big == {i \in 1..Len(changes) :
                   (t = 0 \/ i < t) /\ ~SmallChange(changes[i])}
        first == IF big = {} THEN 0 ELSE CHOOSE i \in big : \A j \in big : i <= j
    IN  IF first # 0 /\ ChangeIsPaste(changes[first], clip) THEN first ELSE 0

\* Mutant: the changes after a throwing one are still classified.
CountedIndexPastThrow(changes, clip) ==
    LET hits == {i \in 1..Len(changes) :
                    HasText(changes[i]) /\ ChangeIsPaste(changes[i], clip)}
    IN  IF hits = {} THEN 0 ELSE CHOOSE i \in hits : \A j \in hits : i <= j

\* The index of the change the loop counts and breaks at; 0 when it counts none.
\* Nothing the loop reads changes before it counts a paste.
\* change.text.length throws a TypeError at the first change without text the
\* loop reaches.
CountedIndex(changes, clip) ==
    LET t == ThrowIndex(changes)
        hits == {i \in 1..Len(changes) :
                    (t = 0 \/ i < t) /\ ChangeIsPaste(changes[i], clip)}
    IN  IF hits = {} THEN 0 ELSE CHOOSE i \in hits : \A j \in hits : i <= j

\* The loop ends in the handler's catch.
LoopThrows(changes, clip) ==
    LET k == CountedIndex(changes, clip)
        t == ThrowIndex(changes)
    IN  t # 0 /\ (k = 0 \/ t < k)

\* What the loop does with the changes it reaches.
LoopResults(changes, clip) ==
    LET k == CountedIndex(changes, clip)
        t == ThrowIndex(changes)
        reached == IF k # 0 THEN k ELSE IF t # 0 THEN t - 1 ELSE Len(changes)
    IN  [i \in 1..reached |->
            IF HasText(changes[i])
            THEN [change |-> changes[i],
                  skipped |-> SmallChange(changes[i]),
                  detected |-> ~SmallChange(changes[i])
                                  /\ isProbablyPaste(changes[i], clip),
                  isPaste |-> ChangeIsPaste(changes[i], clip)]
            ELSE [change |-> changes[i], skipped |-> FALSE, detected |-> FALSE,
                  isPaste |-> FALSE]]

\* The accounting of a counted paste.
\* Mutant: the lines are counted as the newline characters of the text.
CountPasteNewlines(change) ==
    [pasteStats EXCEPT
        !.totalPastes = @ + 1,
        !.totalLinesPasted = @ + TextFacts[change.text].parts - 1]

\* Mutant: totalPastes grows by the number of lines as well.
CountPastePerLine(change) ==
    [pasteStats EXCEPT
        !.totalPastes = @ + TextFacts[change.text].parts,
        !.totalLinesPasted = @ + TextFacts[change.text].parts]

CountPaste(change) ==
    [pasteStats EXCEPT
        !.totalPastes = @ + 1,
        !.totalLinesPasted = @ + TextFacts[change.text].parts]

\* Mutant: the threshold is mistyped.
ThrottledTypo == now - lastEditTime < 30

\* The throttle's test.
Throttled == now - lastEditTime < ThrottleMs

\* Where the synchronous part of the paste handler leaves a change event.
PasteOutcome(document, changes) ==
    IF ~isTracking THEN "notTracking"
    ELSE IF activeTextEditor = <<>> THEN "noEditor"
    ELSE IF document.uri # activeTextEditor[1].uri THEN "otherDocument"
    ELSE IF ~DocFacts[document].editable THEN "notEditable"
    ELSE IF ~DocFacts[document].code THEN "noCode"
    ELSE IF Throttled THEN "throttled"
    ELSE IF Len(changes) = 0 THEN "noChanges"
    ELSE "suspended"

\* The keyboard listener's test for a paste shortcut.
ShortcutDetected(changes) ==
    /\ Len(changes) # 0
    /\ activeTextEditor # <<>>
    /\ HasText(changes[1])
    /\ changes[1].text = "v"
    /\ now - lastKeypressTime < KeypressGapMs

\* --------------------------------------------------------------- actions
NoEvent ==
    [document |-> DocApp, changes |-> <<>>, outcome |-> "none", detected |-> FALSE]

NoRun ==
    [arrived |-> 0 - 1, changes |-> <<>>, clip |-> "", flag |-> FALSE,
     editorKept |-> FALSE, detectAt |-> 0 - 1, results |-> <<>>, counted |-> 0,
     pastes |-> 0, lines |-> 0, error |-> FALSE, tracking |-> TRUE]

NoBody == [userId |-> "", totalPastes |-> 0, totalLinesPasted |-> 0, date |-> ""]

\* step: which handler ran; entered: submitToLeaderboard was called in it;
\* returned: what a submitToLeaderboard call returned in it; submitStats: what
\* the client's submitStats came to in it.
NoCall ==
    [step |-> "none", entered |-> FALSE, answer |-> "none", returned |-> "none",
     body |-> NoBody, cleared |-> <<>>, checked |-> FALSE, submitStats |-> "none"]

\* The stats files an activation may find: none, an empty one, one that is
\* not JSON, the record of an earlier day, a record of the current day.
PriorFiles ==
    {NoFile, EmptyFile, InvalidFile,
     StatsFile([totalPastes |-> 2, totalLinesPasted |-> 7,
                date |-> toDateString(0), userId |-> "user_7fh2c0d8a"]),
     StatsFile([totalPastes |-> 1, totalLinesPasted |-> 3,
                date |-> toDateString(1), userId |-> "user_7fh2c0d8a"])}

\* The record and its file once activate has called loadPasteStats.
InitDisk(files, ids) ==
    /\ today = 1
    /\ \E f \in files, id \in ids :
           LET loaded == loadPasteStats(FreshStats(toDateString(1), null), f, 1, id)
           IN  pasteStats = loaded.stats /\ statsFile = loaded.file
    /\ savedOn = 1

\* new LeaderboardClient(context) while the setting has the value enabled;
\* its lastConnectionAttempt is 0, the epoch, long before the module loaded.
NewClient(enabled) ==
    [enabled |-> enabled, offlineMode |-> FALSE,
     lastConnectionAttempt |-> 0 - (RetryMs + 1), pendingSubmissions |-> <<>>]

\* startAutoSync at time t.
AutoSyncTimers(t) ==
    {[due |-> t + InitialSyncMs, kind |-> "initial"],
     [due |-> t + SYNC_INTERVAL_MS, kind |-> "interval"]}

\* The sync state once activate has run with the setting at its default.
InitSync ==
    /\ leaderboardEnabled = FALSE
    /\ offlineMode = FALSE
    /\ pendingSubmissions = <<>>
    /\ lastConnectionAttempt = 0
    /\ syncTimers = AutoSyncTimers(0)
    /\ syncOps = {}
    /\ client = NewClient(FALSE)
    /\ posts = {}
    /\ submitInvoked = FALSE
    /\ commandsRun = 0
    /\ collection = <<>>
    /\ requests = {}
    /\ received = 0
    /\ accepted = <<>>

InitWith(editors, clipboards) ==
    /\ now = 0
    /\ isTracking = TRUE
    /\ InitDisk({NoFile}, {"user_k3x9q2m1z"})
    /\ InitSync
    /\ failed = FALSE
    /\ lastEditTime = 0
    /\ lastPasteKeyCombination = FALSE
    /\ lastKeypressTime = 0
    /\ resetTimers = {}
    /\ activeTextEditor \in editors
    /\ clipboard \in clipboards
    /\ suspended = {}
    /\ admitted = <<>>
    /\ lastDetect = 0 - 1
    /\ consumed = FALSE
    /\ lastEvent = NoEvent
    /\ lastRun = NoRun
    /\ keySeen = FALSE
    /\ lastCall = NoCall

\* The paste tracker's handler from its entry to the await of the clipboard read.
PasteListener(document, changes) ==
    LET outcome == PasteOutcome(document, changes)
        passed == outcome \in {"noChanges", "suspended"}
    IN  /\ lastEditTime' = IF passed THEN now ELSE lastEditTime
        /\ admitted' = IF passed THEN Append(admitted, now) ELSE admitted
        /\ suspended' =
               IF outcome = "suspended"
               THEN suspended \cup
                        {[document |-> document, changes |-> changes, arrived |-> now]}
               ELSE suspended

\* Mutant: the flag is set and no timer is started to reset it.
KeyboardListenerNoTimer(changes) ==
    LET runs == Len(changes) # 0 /\ activeTextEditor # <<>>
        detected == ShortcutDetected(changes)
    IN  /\ lastPasteKeyCombination' = (detected \/ lastPasteKeyCombination)
        /\ resetTimers' = resetTimers
        /\ lastKeypressTime' = IF runs THEN now ELSE lastKeypressTime
        /\ lastDetect' = IF detected THEN now ELSE lastDetect
        /\ consumed' = (~detected /\ consumed)
        /\ keySeen' = (runs \/ keySeen)

\* The keyboard tracker's handler.
KeyboardListener(changes) ==
    LET runs == Len(changes) # 0 /\ activeTextEditor # <<>>
        detected == ShortcutDetected(changes)
    IN  /\ lastPasteKeyCombination' = (detected \/ lastPasteKeyCombination)
        /\ resetTimers' =
               IF detected THEN resetTimers \cup {now + FlagResetMs} ELSE resetTimers
        /\ lastKeypressTime' = IF runs THEN now ELSE lastKeypressTime
        /\ lastDetect' = IF detected THEN now ELSE lastDetect
        /\ consumed' = (~detected /\ consumed)
        /\ keySeen' = (runs \/ keySeen)

\* The editor fires onDidChangeTextDocument: the paste tracker was registered
\* first and runs to its await, then the keyboard tracker runs.
ChangeEvent(document, changes) ==
    /\ PasteListener(document, changes)
    /\ KeyboardListener(changes)
    /\ lastEvent' =
           [document |-> document, changes |-> changes,
            outcome |-> PasteOutcome(document, changes),
            detected |-> ShortcutDetected(changes)]
    /\ lastRun' = NoRun
    /\ lastCall' = NoCall
    /\ UNCHANGED <<now, isTracking, pasteStats, activeTextEditor, clipboard,
                   diskVars, failed, syncVars, serverVars>>

\* Mutant: the flag is reset after every classification, counted or not.
FlagAfterRunAlwaysReset(k) == FALSE

\* Mutant: a counted paste leaves the flag set.
FlagAfterRunKept(k) == lastPasteKeyCombination

\* "Reset keyboard detection", inside the branch that counts a paste.
FlagAfterRun(k) == k = 0 /\ lastPasteKeyCombination

\* clipboard.readText() resolves and the handler runs to its end.
ClipboardResolves(h) ==
    LET k == CountedIndex(h.changes, clipboard)
        after == IF k = 0 THEN pasteStats ELSE CountPaste(h.changes[k])
    IN  /\ suspended' = suspended \ {h}
        /\ pasteStats' = after
        /\ statsFile' = IF k = 0 THEN statsFile ELSE savePasteStats(after)
        /\ savedOn' = IF k = 0 THEN savedOn ELSE today
        /\ lastPasteKeyCombination' = FlagAfterRun(k)
        /\ consumed' = (k # 0 \/ consumed)
        /\ failed' = (failed \/ LoopThrows(h.changes, clipboard))
        /\ lastRun' =
               [arrived |-> h.arrived, changes |-> h.changes, clip |-> clipboard,
                flag |-> lastPasteKeyCombination,
                editorKept |-> (activeTextEditor = <<h.document>>),
                detectAt |-> lastDetect,
                results |-> LoopResults(h.changes, clipboard), counted |-> k,
                pastes |-> after.totalPastes - pasteStats.totalPastes,
                lines |-> after.totalLinesPasted - pasteStats.totalLinesPasted,
                error |-> LoopThrows(h.changes, clipboard),
                tracking |-> isTracking]
        /\ lastEvent' = NoEvent
        /\ lastCall' = NoCall
        /\ UNCHANGED <<now, isTracking, lastEditTime, lastKeypressTime, resetTimers,
                       activeTextEditor, clipboard, admitted, lastDetect, keySeen, today,
                       syncVars, serverVars>>

\* clipboard.readText() rejects: the handler's catch logs and returns.
ClipboardFails(h) ==
    /\ suspended' = suspended \ {h}
    /\ failed' = TRUE
    /\ lastEvent' = NoEvent
    /\ lastCall' = NoCall
    /\ lastRun' =
           [NoRun EXCEPT !.arrived = h.arrived, !.changes = h.changes,
                         !.flag = lastPasteKeyCombination, !.error = TRUE,
                         !.tracking = isTracking]
    /\ UNCHANGED <<now, isTracking, pasteStats, lastEditTime, lastPasteKeyCombination,
                   lastKeypressTime, resetTimers, activeTextEditor, clipboard,
                   admitted, lastDetect, keySeen, consumed, diskVars, syncVars, serverVars>>

\* Mutant: the callback leaves the flag as it is.
TimerFiresKeepsFlag(t) ==
    /\ t <= now
    /\ resetTimers' = resetTimers \ {t}
    /\ lastPasteKeyCombination' = lastPasteKeyCombination
    /\ lastEvent' = NoEvent
    /\ lastRun' = NoRun
    /\ lastCall' = NoCall
    /\ UNCHANGED <<now, isTracking, pasteStats, lastEditTime, lastKeypressTime,
                   activeTextEditor, clipboard, suspended, admitted, lastDetect,
                   keySeen, consumed, diskVars, failed, syncVars, serverVars>>

\* A setTimeout callback of the keyboard tracker runs.
TimerFires(t) ==
    /\ t <= now
    /\ resetTimers' = resetTimers \ {t}
    /\ lastPasteKeyCombination' = FALSE
    /\ lastEvent' = NoEvent
    /\ lastRun' = NoRun
    /\ lastCall' = NoCall
    /\ UNCHANGED <<now, isTracking, pasteStats, lastEditTime, lastKeypressTime,
                   activeTextEditor, clipboard, suspended, admitted, lastDetect, keySeen,
                   consumed, diskVars, failed, syncVars, serverVars>>

\* Time passes, by step at most and never past the next timer: a timer runs
\* when it is due.
Advance(step, steps) ==
    LET timers == resetTimers \cup {t.due : t \in syncTimers}
        due == {t \in timers : t <= now + step}
    IN  /\ now + step <= steps * step
        /\ \A t \in timers : t > now
        /\ now' = IF due = {} THEN now + step
                  ELSE CHOOSE t \in due : \A u \in due : t <= u
    /\ lastEvent' = NoEvent
    /\ lastRun' = NoRun
    /\ lastCall' = NoCall
    /\ UNCHANGED <<isTracking, pasteStats, lastEditTime, lastPasteKeyCombination,
                   lastKeypressTime, resetTimers, activeTextEditor, clipboard,
                   suspended, admitted, lastDetect, keySeen, consumed, diskVars, failed, syncVars,
                   serverVars>>

\* The user opens, switches or closes the active editor.
SwitchEditor(e) ==
    /\ e # activeTextEditor
    /\ activeTextEditor' = e
    /\ lastEvent' = NoEvent
    /\ lastRun' = NoRun
    /\ lastCall' = NoCall
    /\ UNCHANGED <<now, isTracking, pasteStats, lastEditTime, lastPasteKeyCombination,
                   lastKeypressTime, resetTimers, clipboard, suspended, admitted,
                   lastDetect, keySeen, consumed, diskVars, failed, syncVars, serverVars>>

\* The user, or another program, copies something.
SetClipboard(c) ==
    /\ c # clipboard
    /\ clipboard' = c
    /\ lastEvent' = NoEvent
    /\ lastRun' = NoRun
    /\ lastCall' = NoCall
    /\ UNCHANGED <<now, isTracking, pasteStats, lastEditTime, lastPasteKeyCombination,
                   lastKeypressTime, resetTimers, activeTextEditor, suspended,
                   admitted, lastDetect, keySeen, consumed, diskVars, failed, syncVars,
                   serverVars>>

\* The command copyjedi.toggleTracking.
ToggleTracking ==
    /\ isTracking' = ~isTracking
    /\ lastEvent' = NoEvent
    /\ lastRun' = NoRun
    /\ lastCall' = NoCall
    /\ UNCHANGED <<now, pasteStats, lastEditTime, lastPasteKeyCombination,
                   lastKeypressTime, resetTimers, activeTextEditor, clipboard,
                   suspended, admitted, lastDetect, keySeen, consumed, diskVars, failed, syncVars,
                   serverVars>>

\* The command copyjedi.resetStats.
ResetStats ==
    LET fresh == FreshStats(toDateString(today), pasteStats.userId)
    IN  /\ pasteStats' = fresh
        /\ statsFile' = savePasteStats(fresh)
        /\ savedOn' = today
        /\ lastEvent' = NoEvent
        /\ lastRun' = NoRun
        /\ lastCall' = NoCall
        /\ UNCHANGED <<now, isTracking, lastEditTime, lastPasteKeyCombination,
                       lastKeypressTime, resetTimers, activeTextEditor, clipboard,
                       suspended, admitted, lastDetect, keySeen, consumed, today, failed,
                       syncVars, serverVars>>

\* VS Code restarts: the extension host ends with its timers and suspended
\* handlers, the module is loaded again and activate runs loadPasteStats.
Restart(newId) ==
    LET loaded ==
            loadPasteStats(FreshStats(toDateString(today), null), statsFile, today,
                           newId)
    IN  /\ pasteStats' = loaded.stats
        /\ statsFile' = loaded.file
        /\ savedOn' = IF loaded.saved THEN today ELSE savedOn
        /\ isTracking' = TRUE
        /\ lastEditTime' = now
        /\ lastKeypressTime' = now
        /\ lastPasteKeyCombination' = FALSE
        /\ resetTimers' = {}
        /\ suspended' = {}
        /\ lastDetect' = 0 - 1
        /\ consumed' = FALSE
        /\ keySeen' = FALSE
        /\ lastEvent' = [NoEvent EXCEPT !.outcome = "activated"]
        /\ lastRun' = NoRun
        /\ lastCall' = NoCall
        /\ offlineMode' = FALSE
        /\ pendingSubmissions' = <<>>
        /\ lastConnectionAttempt' = now
        /\ syncTimers' = AutoSyncTimers(now)
        /\ client' =
               IF leaderboardEnabled
               THEN [NewClient(TRUE) EXCEPT !.lastConnectionAttempt = now]
               ELSE NewClient(FALSE)
        /\ syncOps' =
               IF leaderboardEnabled
               THEN {[kind |-> "clientCheck", next |-> "none", started |-> now]}
               ELSE {}
        /\ UNCHANGED <<now, activeTextEditor, clipboard, admitted, today, failed,
                       leaderboardEnabled, posts, submitInvoked, commandsRun,
                       serverVars>>

\* The calendar day changes while the editor stays open.
Midnight ==
    /\ today < MaxDays
    /\ today' = today + 1
    /\ lastEvent' = NoEvent
    /\ lastRun' = NoRun
    /\ lastCall' = NoCall
    /\ UNCHANGED <<now, isTracking, pasteStats, lastEditTime, lastPasteKeyCombination,
                   lastKeypressTime, resetTimers, activeTextEditor, clipboard,
                   suspended, admitted, lastDetect, keySeen, consumed, statsFile, savedOn,
                   failed, syncVars, serverVars>>

\* ------------------------------------------------------- leaderboard sync
\* { ...pasteStats, timestamp: Date.now() }
Snapshot == [stats |-> pasteStats, timestamp |-> now]

\* The body of the POST /api/submit that submitToLeaderboard builds.
RequestBody ==
    [userId |-> pasteStats.userId, totalPastes |-> pasteStats.totalPastes,
     totalLinesPasted |-> pasteStats.totalLinesPasted, date |-> pasteStats.date]

\* A POST /api/submit leaves the editor.
Sent(body, via) ==
    [body |-> body, via |-> via, enabled |-> leaderboardEnabled,
     invoked |-> submitInvoked]

\* Mutant: the retry interval is not consulted and every call connects.
QueuesOfflineNever == FALSE

\* Mutant: once offline, every call queues.
QueuesOfflineForever == offlineMode

\* submitToLeaderboard queues instead of connecting.
QueuesOffline == offlineMode /\ now - lastConnectionAttempt < RetryMs

\* The step enters submitToLeaderboard, which returns false at once when it
\* queues and else awaits the health check.
Entered(step) ==
    [NoCall EXCEPT !.step = step, !.entered = TRUE,
                   !.returned = IF QueuesOffline THEN "false" ELSE "none"]

\* submitToLeaderboard from its entry to the await of the health check; ops
\* are the requests that stay awaited.  Nothing in it reads the setting.
submitToLeaderboard(origin, ops) ==
    IF QueuesOffline
    THEN /\ pendingSubmissions' = Append(pendingSubmissions, Snapshot)
         /\ lastConnectionAttempt' = lastConnectionAttempt
         /\ syncOps' = ops
    ELSE /\ pendingSubmissions' = pendingSubmissions
         /\ lastConnectionAttempt' = now
         /\ syncOps' = ops \cup {[kind |-> "health", origin |-> origin, started |-> now]}

\* The initial timeout or the interval of startAutoSync runs its callback.
SyncTimerFires(t) ==
    /\ t.due <= now
    /\ syncTimers' =
           IF t.kind = "interval"
           THEN (syncTimers \ {t}) \cup {[t EXCEPT !.due = @ + SYNC_INTERVAL_MS]}
           ELSE syncTimers \ {t}
    /\ submitToLeaderboard("auto", syncOps)
    /\ lastEvent' = NoEvent
    /\ lastRun' = NoRun
    /\ lastCall' = Entered("timer")
    /\ UNCHANGED <<now, pasteStats, editVars, diskVars, failed, leaderboardEnabled,
                   offlineMode, client, posts, submitInvoked, commandsRun, serverVars>>

\* The health check of submitToLeaderboard answers: ok, or anything else
\* (a status that is not ok, an error, the 5 second timeout).
HealthResolves(op, ok) ==
    /\ op.kind = "health"
    /\ IF ok
       THEN /\ offlineMode' = FALSE
            /\ pendingSubmissions' = pendingSubmissions
            /\ posts' = posts \cup {Sent(RequestBody, op.origin)}
            /\ syncOps' =
                   (syncOps \ {op})
                       \cup {[kind |-> "post", origin |-> op.origin, started |-> now,
                               body |-> RequestBody]}
       ELSE /\ offlineMode' = TRUE
            /\ pendingSubmissions' = Append(pendingSubmissions, Snapshot)
            /\ posts' = posts
            /\ syncOps' = syncOps \ {op}
    /\ lastEvent' = NoEvent
    /\ lastRun' = NoRun
    /\ lastCall' =
           [NoCall EXCEPT !.step = "health",
                          !.answer = IF ok THEN "ok" ELSE "fails",
                          !.returned = IF ok THEN "none" ELSE "false",
                          !.body = IF ok THEN RequestBody ELSE NoBody]
    /\ UNCHANGED <<now, pasteStats, editVars, diskVars, failed, leaderboardEnabled,
                   lastConnectionAttempt, syncTimers, client, submitInvoked, commandsRun,
                   serverVars>>

\* Mutant: a POST that throws leaves offlineMode as it was.
OfflineAfterPostKept(answer) == answer # "ok" /\ offlineMode

\* offlineMode once the POST has answered: "ok", "rejected" (a status that is
\* not ok) or "throws" (no connection, the 10 second timeout).
OfflineAfterPost(answer) ==
    CASE answer = "ok" -> FALSE
      [] answer = "rejected" -> offlineMode
      [] OTHER -> TRUE

\* Mutant: the queue is emptied whenever the server answers, ok or not.
PendingAfterPostAnyAnswer(answer) ==
    IF answer = "throws" THEN Append(pendingSubmissions, Snapshot) ELSE <<>>

\* pendingSubmissions once the POST has answered.
PendingAfterPost(answer) ==
    CASE answer = "ok" -> <<>>
      [] answer = "rejected" -> pendingSubmissions
      [] OTHER -> Append(pendingSubmissions, Snapshot)

\* The POST of submitToLeaderboard answers and the call returns.
PostAnswered(op, answer) ==
    /\ op.kind = "post"
    /\ syncOps' = syncOps \ {op}
    /\ offlineMode' = OfflineAfterPost(answer)
    /\ pendingSubmissions' = PendingAfterPost(answer)
    /\ lastEvent' = NoEvent
    /\ lastRun' = NoRun
    /\ lastCall' =
           [NoCall EXCEPT !.step = "post", !.answer = answer,
                          !.returned = IF answer = "ok" THEN "true" ELSE "false",
                          !.body = op.body,
                          !.cleared = IF answer = "ok" THEN pendingSubmissions
                                      ELSE <<>>]
    /\ UNCHANGED <<now, pasteStats, editVars, diskVars, failed, leaderboardEnabled,
                   lastConnectionAttempt, syncTimers, client, posts, submitInvoked,
                   commandsRun>>

\* The POST answers; what the server did with it is left open.
PostResolves(op, answer) == PostAnswered(op, answer) /\ UNCHANGED serverVars

\* The command copyjedi.checkServer ends having found the server or not.
CheckServer(reachable) ==
    /\ offlineMode' = ~reachable
    /\ lastEvent' = NoEvent
    /\ lastRun' = NoRun
    /\ lastCall' = [NoCall EXCEPT !.step = "checkServer"]
    /\ UNCHANGED <<now, pasteStats, editVars, diskVars, failed, leaderboardEnabled,
                   pendingSubmissions, lastConnectionAttempt, syncTimers, syncOps,
                   client, posts, submitInvoked, commandsRun, serverVars>>

\* The user changes the setting; the client's configuration listener runs.
SetLeaderboardEnabled(value) ==
    /\ value # leaderboardEnabled
    /\ leaderboardEnabled' = value
    /\ client' = [client EXCEPT !.enabled = value]
    /\ lastEvent' = NoEvent
    /\ lastRun' = NoRun
    /\ lastCall' = [NoCall EXCEPT !.step = "setting"]
    /\ UNCHANGED <<now, pasteStats, editVars, diskVars, failed, offlineMode,
                   pendingSubmissions, lastConnectionAttempt, syncTimers, syncOps,
                   posts, submitInvoked, commandsRun, serverVars>>

\* Mutant: the retry interval is not consulted.
ClientChecksAlways(c) == c.enabled

\* LeaderboardClient.checkServerAvailability contacts the server.
ClientChecks(c) ==
    c.enabled /\ ~(c.offlineMode /\ now - c.lastConnectionAttempt < RetryMs)

\* The body of a POST /api/submit that submitStatsToServer builds from stats.
ClientBody(stats) ==
    [userId |-> stats.userId, totalPastes |-> stats.totalPastes,
     totalLinesPasted |-> stats.totalLinesPasted, date |-> stats.date]

\* The command copyjedi.submitToLeaderboard: the setting is switched on, the
\* client is initialized again (one availability check) and submitStats runs;
\* when it returns false the direct submitToLeaderboard takes over.  The
\* client's queue holds the stats objects themselves; a stats object changes
\* only when a paste is counted.
SubmitCommand(limit) ==
    LET enabled == [client EXCEPT !.enabled = TRUE]
        checks == ClientChecks(enabled)
        checked == IF checks THEN [enabled EXCEPT !.lastConnectionAttempt = now]
                   ELSE enabled
        ops == IF checks
               THEN syncOps \cup {[kind |-> "clientCheck", next |-> "none",
                                   started |-> now]}
               ELSE syncOps
    IN  /\ commandsRun < limit
        /\ commandsRun' = commandsRun + 1
        /\ leaderboardEnabled' = TRUE
        /\ submitInvoked' = TRUE
        /\ IF pasteStats.userId \in {null, ""}
           THEN /\ client' = checked
                /\ posts' = posts
                /\ submitToLeaderboard("command", ops)
           ELSE IF checked.offlineMode
           THEN /\ client' =
                       [checked EXCEPT
                           !.pendingSubmissions = Append(@, pasteStats)]
                /\ posts' = posts
                /\ submitToLeaderboard("command", ops)
           ELSE /\ client' = checked
                /\ posts' =
                       posts \cup {[Sent(ClientBody(pasteStats), "client") EXCEPT
                                       !.enabled = TRUE, !.invoked = TRUE]}
                /\ syncOps' =
                       ops \cup {[kind |-> "clientPost", next |-> "fallback",
                                  started |-> now,
                                  body |-> ClientBody(pasteStats),
                                  call |-> commandsRun + 1]}
                /\ UNCHANGED <<pendingSubmissions, lastConnectionAttempt>>
        /\ lastEvent' = NoEvent
        /\ lastRun' = NoRun
        /\ lastCall' =
               IF pasteStats.userId \in {null, ""} \/ checked.offlineMode
               THEN [Entered("command") EXCEPT !.checked = checks,
                                               !.submitStats = "false"]
               ELSE [NoCall EXCEPT !.step = "command", !.checked = checks,
                                   !.submitStats = "pending"]
        /\ UNCHANGED <<now, pasteStats, editVars, diskVars, failed, offlineMode,
                       syncTimers, serverVars>>

\* The endpoints tried by checkServerAvailability have answered: one of them
\* ok (connected) or none.  Back online with submissions pending, the client
\* posts the latest of them (submitPendingData, which is not awaited).
ClientCheckResolves(op, connected) ==
    LET flush == connected /\ client.offlineMode
                     /\ client.pendingSubmissions # <<>>
        latest == client.pendingSubmissions[Len(client.pendingSubmissions)]
    IN  /\ op.kind = "clientCheck"
        /\ client' = [client EXCEPT !.offlineMode = ~connected]
        /\ posts' =
               IF flush
               THEN posts \cup {Sent(ClientBody(latest), "clientPending")}
               ELSE posts
        /\ syncOps' =
               IF flush
               THEN (syncOps \ {op})
                        \cup {[kind |-> "clientPost", next |-> "pending",
                               started |-> now, body |-> ClientBody(latest),
                               call |-> commandsRun]}
               ELSE syncOps \ {op}
        /\ lastEvent' = NoEvent
        /\ lastRun' = NoRun
        /\ lastCall' =
               [NoCall EXCEPT !.step = "clientCheck",
                              !.answer = IF connected THEN "ok" ELSE "fails",
                              !.body = IF flush THEN ClientBody(latest) ELSE NoBody]
        /\ UNCHANGED <<now, pasteStats, editVars, diskVars, failed,
                       leaderboardEnabled, offlineMode, pendingSubmissions,
                       lastConnectionAttempt, syncTimers, submitInvoked, commandsRun,
                       serverVars>>

\* Mutant: submitPendingData drops only the submission it sent.
ClientPendingAfterPostLatestOnly(op, answer) ==
    IF op.next = "pending" /\ answer = "ok"
    THEN SubSeq(client.pendingSubmissions, 1, Len(client.pendingSubmissions) - 1)
    ELSE client.pendingSubmissions

\* The client's queue once a POST of submitStatsToServer has answered.
ClientPendingAfterPost(op, answer) ==
    IF op.next = "pending" /\ answer = "ok" THEN <<>>
    ELSE client.pendingSubmissions

\* A POST of LeaderboardClient.submitStatsToServer answers.  One sent by
\* submitStats falls back on submitToLeaderboard unless the answer is ok; one
\* sent by submitPendingData empties the client's queue when the answer is ok.
ClientPostAnswered(op, answer) ==
    /\ op.kind = "clientPost"
    /\ client' =
           [client EXCEPT
               !.offlineMode = (answer = "throws" \/ @),
               !.pendingSubmissions = ClientPendingAfterPost(op, answer)]
    /\ IF op.next = "fallback" /\ answer # "ok"
       THEN submitToLeaderboard("command", syncOps \ {op})
       ELSE /\ syncOps' = syncOps \ {op}
            /\ UNCHANGED <<pendingSubmissions, lastConnectionAttempt>>
    /\ lastEvent' = NoEvent
    /\ lastRun' = NoRun
    /\ lastCall' =
           IF op.next = "fallback" /\ answer # "ok"
           THEN [Entered("clientPost") EXCEPT !.answer = answer, !.body = op.body]
           ELSE [NoCall EXCEPT
                    !.step = IF op.next = "pending" THEN "clientPending"
                             ELSE "clientPost",
                    !.answer = answer, !.body = op.body,
                    !.cleared = IF op.next = "pending" /\ answer = "ok"
                                THEN client.pendingSubmissions ELSE <<>>]
    /\ UNCHANGED <<now, pasteStats, editVars, diskVars, failed, leaderboardEnabled,
                   offlineMode, syncTimers, posts, submitInvoked, commandsRun>>

\* The POST answers; what the server did with it is left open.
ClientPostResolves(op, answer) ==
    ClientPostAnswered(op, answer) /\ UNCHANGED serverVars

\* ------------------------------------------------------ leaderboard server
\* The fields of a request body the handler reads; one that was not sent is
\* undefined.
Sends(body, field) == field \in DOMAIN body

\* The first validation of POST /api/submit.
MissingFields(body) ==
    \/ ~Sends(body, "userId")
    \/ body.userId = ""
    \/ ~Sends(body, "totalPastes")
    \/ ~Sends(body, "totalLinesPasted")

\* PasteStats.findOne({ userId }): the position of the first document of the
\* user; 0 when there is none.
findOne(userId) ==
    LET hits == {i \in DOMAIN collection : collection[i].userId = userId}
    IN  IF hits = {} THEN 0 ELSE CHOOSE i \in hits : \A j \in hits : i <= j

\* new PasteStats({...}) of the handler.
NewDocument(id, body) ==
    [id |-> id, userId |-> body.userId, totalPastes |-> body.totalPastes,
     totalLinesPasted |-> body.totalLinesPasted,
     dailyStats |-> <<[date |-> body.date, pastes |-> body.totalPastes,
                       lines |-> body.totalLinesPasted]>>]

\* "Add or update daily stats"
UpdatedDaily(dailyStats, body) ==
    LET hits == {i \in DOMAIN dailyStats : dailyStats[i].date = body.date}
    IN  IF hits = {}
        THEN Append(dailyStats, [date |-> body.date, pastes |-> body.totalPastes,
                                 lines |-> body.totalLinesPasted])
        ELSE LET k == CHOOSE i \in hits : \A j \in hits : i <= j
             IN  [dailyStats EXCEPT ![k] = [date |-> body.date,
                                            pastes |-> body.totalPastes,
                                            lines |-> body.totalLinesPasted]]

\* "Update existing stats" on the document the handler found.
UpdatedDocument(doc, body) ==
    [doc EXCEPT !.totalPastes = body.totalPastes,
                !.totalLinesPasted = body.totalLinesPasted,
                !.dailyStats = UpdatedDaily(@, body)]

\* userStats.save() of a new document: userId is indexed, not unique.
InsertedDocument(doc) == Append(collection, doc)

\* A POST /api/submit arrives: 400 for missing fields, else findOne is awaited.
SubmitArrives(body) ==
    /\ received < MaxRequests
    /\ received' = received + 1
    /\ requests' =
           IF MissingFields(body) THEN requests
           ELSE requests \cup {[id |-> received + 1, body |-> body,
                                stage |-> "findOne", found |-> 0]}
    /\ collection' = collection
    /\ accepted' = accepted
    /\ lastEvent' = NoEvent
    /\ lastRun' = NoRun
    /\ lastCall' = NoCall
    /\ UNCHANGED <<now, pasteStats, editVars, diskVars, failed, syncVars>>

\* findOne answers; the handler prepares the new or the updated document and
\* awaits save.
FindOneReturns(r) ==
    /\ r.stage = "findOne"
    /\ requests' =
           (requests \ {r})
               \cup {[r EXCEPT
                         !.stage = "save",
                         !.found = IF findOne(r.body.userId) = 0 THEN 0
                                   ELSE collection[findOne(r.body.userId)].id]}
    /\ UNCHANGED <<collection, received, accepted>>
    /\ lastEvent' = NoEvent
    /\ lastRun' = NoRun
    /\ lastCall' = NoCall
    /\ UNCHANGED <<now, pasteStats, editVars, diskVars, failed, syncVars>>

\* save answers: the document is inserted, or the one found is updated, and
\* the handler responds 200.
SaveReturns(r) ==
    /\ r.stage = "save"
    /\ requests' = requests \ {r}
    /\ collection' =
           IF r.found = 0 THEN InsertedDocument(NewDocument(r.id, r.body))
           ELSE [i \in DOMAIN collection |->
                    IF collection[i].id = r.found
                    THEN UpdatedDocument(collection[i], r.body)
                    ELSE collection[i]]
    /\ received' = received
    /\ accepted' = accepted
    /\ lastEvent' = NoEvent
    /\ lastRun' = NoRun
    /\ lastCall' = NoCall
    /\ UNCHANGED <<now, pasteStats, editVars, diskVars, failed, syncVars>>

\* The collection once POST /api/submit has handled body with no other
\* request between its findOne and its save.
Handled(body) ==
    LET k == findOne(body.userId)
    IN  IF k = 0 THEN InsertedDocument(NewDocument(received + 1, body))
        ELSE [collection EXCEPT ![k] = UpdatedDocument(@, body)]

\* The server handles the POST of submitToLeaderboard and responds 200; the
\* response reaches the extension.
PostStored(op) ==
    /\ op.kind = "post"
    /\ ~MissingFields(op.body)
    /\ PostAnswered(op, "ok")
    /\ collection' = Handled(op.body)
    /\ received' = received + 1
    /\ requests' = requests
    /\ accepted' = accepted

\* The server handles a POST of the client and responds 200; the response
\* reaches the client.
ClientPostStored(op) ==
    /\ op.kind = "clientPost"
    /\ ~MissingFields(op.body)
    /\ ClientPostAnswered(op, "ok")
    /\ collection' = Handled(op.body)
    /\ received' = received + 1
    /\ requests' = requests
    /\ accepted' =
           Append(accepted,
                  [via |-> IF op.next = "pending" THEN "clientPending" ELSE "client",
                   body |-> op.body, call |-> op.call, at |-> received + 1])

\* -------------------------------------------------------- specifications
\* Timing and interleaving: the keyboard shortcut, the throttle, the timers.
TimeBatches ==
    {<<>>} \cup
    {<<Change(t, RangeEmpty)>> : t \in {"v", TextTen, TextEleven, TextShortLines}}

TimeEditors == {<<>>, <<DocApp>>}

Init == InitWith({<<DocApp>>}, {"zzz"})

Next ==
    \/ \E cs \in TimeBatches : ChangeEvent(DocApp, cs)
    \/ \E h \in suspended : ClipboardResolves(h)
    \/ \E h \in suspended : ClipboardFails(h)
    \/ \E t \in resetTimers : TimerFires(t)
    \/ Advance(Tick, MaxTicks)
    \/ \E e \in TimeEditors : SwitchEditor(e)

Spec == Init /\ [][Next]_vars

\* The decision rule: every inserted text, range and clipboard of the model,
\* up to the first admitted events (no timer is due that early).
\* While a classification is suspended the only further events are keystrokes.
RuleBatches ==
    IF suspended = {} THEN {<<c>> : c \in Changes}
    ELSE {<<Change(t, RangeEmpty)>> : t \in {"v", "x"}}

RuleEditors == {<<>>, <<DocApp>>, <<DocReadme>>}

InitRule == InitWith({<<DocApp>>}, Clipboards)

NextRule ==
    \/ \E cs \in RuleBatches : ChangeEvent(DocApp, cs)
    \/ \E h \in suspended : ClipboardResolves(h)
    \/ Advance(ThrottleMs, RuleSteps)
    \/ \E e \in RuleEditors : SwitchEditor(e)
    \/ \E c \in Clipboards : SetClipboard(c)

SpecRule == InitRule /\ [][NextRule]_vars

\* The document filter: every document and every active editor of the model.
DocBatches == {<<>>, <<Change("x", RangeEmpty)>>, <<Change(TextFoo, RangeEmpty)>>}

InitDocs == InitWith(Editors, {TextFoo})

NextDocs ==
    \/ \E d \in Docs, cs \in DocBatches : ChangeEvent(d, cs)
    \/ \E h \in suspended : ClipboardResolves(h)
    \/ Advance(ThrottleMs, DocSteps)
    \/ \E e \in Editors : SwitchEditor(e)
    \/ ToggleTracking

SpecDocs == InitDocs /\ [][NextDocs]_vars

\* Batches: events that carry several content changes, some without text, and
\* clipboard reads that fail.
BatchPairs ==
    {<<"x", TextFoo>>, <<TextTen, TextFoo>>, <<TextFoo, TextFooTwo>>,
     <<TextTen, TextEleven>>, <<TextEleven, TextThreeLines>>}

BatchBatches ==
    {<<Change(t, RangeEmpty)>> : t \in {"v", TextFoo}}
    \cup {<<Change(p[1], RangeEmpty), Change(p[2], RangeEmpty)>> : p \in BatchPairs}
    \cup {<<MalformedChange>>, <<MalformedChange, Change(TextFoo, RangeEmpty)>>,
          <<Change(TextFoo, RangeEmpty), MalformedChange>>,
          <<Change(TextTen, RangeEmpty), MalformedChange>>}

InitBatch == InitWith({<<DocApp>>}, {TextFoo})

NextBatch ==
    \/ \E cs \in BatchBatches : ChangeEvent(DocApp, cs)
    \/ \E h \in suspended : ClipboardResolves(h)
    \/ \E h \in suspended : ClipboardFails(h)
    \/ \E t \in resetTimers : TimerFires(t)
    \/ Advance(ThrottleMs, BatchSteps)

SpecBatch == InitBatch /\ [][NextBatch]_vars

\* The stats record: counting, the reset command, restarts and day changes.
StatsBatches ==
    {<<Change(t, RangeEmpty)>> :
        t \in {"x", "foo();", TextFoo, TextTwoLines, TextThreeLines}}

InitStats ==
    /\ now = 0
    /\ isTracking = TRUE
    /\ InitDisk(PriorFiles, UserIds)
    /\ InitSync
    /\ failed = FALSE
    /\ lastEditTime = 0
    /\ lastPasteKeyCombination = FALSE
    /\ lastKeypressTime = 0
    /\ resetTimers = {}
    /\ activeTextEditor = <<DocApp>>
    /\ clipboard \in {TextFoo, "foo();"}
    /\ suspended = {}
    /\ admitted = <<>>
    /\ lastDetect = 0 - 1
    /\ consumed = FALSE
    /\ lastEvent = NoEvent
    /\ lastRun = NoRun
    /\ keySeen = FALSE
    /\ lastCall = NoCall

NextStats ==
    \/ \E cs \in StatsBatches : ChangeEvent(DocApp, cs)
    \/ \E h \in suspended : ClipboardResolves(h)
    \/ Advance(ThrottleMs, StatsSteps)
    \/ ResetStats
    \/ \E id \in UserIds : Restart(id)
    \/ Midnight

SpecStats == InitStats /\ [][NextStats]_vars

\* Time passes by the sync interval at most.  Every request has answered or
\* run into its timeout (5 and 10 seconds) long before.
AdvanceSync == syncOps = {} /\ Advance(SYNC_INTERVAL_MS, SyncSteps)

\* The leaderboard sync: the timers of startAutoSync, the submit command, the
\* setting, and the answers of the server.
Answers == {"ok", "rejected", "throws"}

InitSyncOnly == InitWith({<<DocApp>>}, {"zzz"})

NextSync ==
    \/ \E t \in syncTimers : SyncTimerFires(t)
    \/ \E op \in syncOps, ok \in BOOLEAN : HealthResolves(op, ok)
    \/ \E op \in syncOps, a \in Answers : PostResolves(op, a)
    \/ \E r \in BOOLEAN : CheckServer(r)
    \/ \E v \in BOOLEAN : SetLeaderboardEnabled(v)
    \/ SubmitCommand(MaxCommands)
    \/ \E op \in syncOps, c \in BOOLEAN : ClientCheckResolves(op, c)
    \/ \E op \in syncOps, a \in Answers : ClientPostResolves(op, a)
    \/ AdvanceSync

SpecSync == InitSyncOnly /\ [][NextSync]_vars

\* The server: requests of two users, some of them incomplete, handled
\* concurrently.
ServerBodies ==
    {[userId |-> u, totalPastes |-> n, totalLinesPasted |-> n + n,
      date |-> toDateString(d)] : u \in UserIds, n \in {1, 2}, d \in {1, 2}}
    \cup {[userId |-> "", totalPastes |-> 1, totalLinesPasted |-> 1,
           date |-> toDateString(1)],
          [userId |-> "user_k3x9q2m1z", date |-> toDateString(1)]}

InitServer == InitWith({<<DocApp>>}, {"zzz"})

NextServer ==
    \/ \E body \in ServerBodies : SubmitArrives(body)
    \/ \E r \in requests : FindOneReturns(r)
    \/ \E r \in requests : SaveReturns(r)

SpecServer == InitServer /\ [][NextServer]_vars

\* The pending queue: pastes and resets between syncs that fail and succeed,
\* with the server storing what it accepts.
QueueBatches == {<<Change(TextFoo, RangeEmpty)>>}

InitQueue == InitWith({<<DocApp>>}, {TextFoo})

\* Time passes once every clipboard read and every request has been answered.
AdvanceQueue ==
    /\ suspended = {}
    /\ syncOps = {}
    /\ Advance(SYNC_INTERVAL_MS, QueueSteps)

NextQueue ==
    \/ \E cs \in QueueBatches : ChangeEvent(DocApp, cs)
    \/ \E h \in suspended : ClipboardResolves(h)
    \/ ResetStats
    \/ \E t \in syncTimers : SyncTimerFires(t)
    \/ \E op \in syncOps, ok \in BOOLEAN : HealthResolves(op, ok)
    \/ \E op \in syncOps, a \in {"rejected", "throws"} : PostResolves(op, a)
    \/ \E op \in syncOps : PostStored(op)
    \/ \E r \in BOOLEAN : CheckServer(r)
    \/ AdvanceQueue

SpecQueue == InitQueue /\ [][NextQueue]_vars

\* The client: activation with the setting on or off (with it on, the check
\* of initialize is in flight) and with any stats file, then the submit
\* command, the answers to the client's requests and to those of the direct
\* method it falls back on.
InitClientWith(files, settings) ==
    /\ now = 0
    /\ isTracking = TRUE
    /\ InitDisk(files, {"user_k3x9q2m1z"})
    /\ failed = FALSE
    /\ lastEditTime = 0
    /\ lastPasteKeyCombination = FALSE
    /\ lastKeypressTime = 0
    /\ resetTimers = {}
    /\ activeTextEditor = <<DocApp>>
    /\ clipboard = TextFoo
    /\ suspended = {}
    /\ admitted = <<>>
    /\ lastDetect = 0 - 1
    /\ consumed = FALSE
    /\ lastEvent = NoEvent
    /\ lastRun = NoRun
    /\ keySeen = FALSE
    /\ lastCall = NoCall
    /\ leaderboardEnabled \in settings
    /\ offlineMode = FALSE
    /\ pendingSubmissions = <<>>
    /\ lastConnectionAttempt = 0
    /\ syncTimers = AutoSyncTimers(0)
    /\ client =
           IF leaderboardEnabled
           THEN [NewClient(TRUE) EXCEPT !.lastConnectionAttempt = 0]
           ELSE NewClient(FALSE)
    /\ syncOps =
           IF leaderboardEnabled
           THEN {[kind |-> "clientCheck", next |-> "none", started |-> 0]}
           ELSE {}
    /\ posts = {}
    /\ submitInvoked = FALSE
    /\ commandsRun = 0
    /\ collection = <<>>
    /\ requests = {}
    /\ received = 0
    /\ accepted = <<>>

InitClient == InitClientWith(PriorFiles, BOOLEAN)

AdvanceClient == syncOps = {} /\ Advance(SYNC_INTERVAL_MS, ClientSteps)

NextClient ==
    \/ SubmitCommand(MaxCommands)
    \/ \E op \in syncOps, c \in BOOLEAN : ClientCheckResolves(op, c)
    \/ \E op \in syncOps, a \in Answers : ClientPostResolves(op, a)
    \/ \E t \in syncTimers : SyncTimerFires(t)
    \/ \E op \in syncOps, ok \in BOOLEAN : HealthResolves(op, ok)
    \/ \E op \in syncOps, a \in Answers : PostResolves(op, a)
    \/ \E v \in BOOLEAN : SetLeaderboardEnabled(v)
    \/ AdvanceClient

SpecClient == InitClient /\ [][NextClient]_vars

\* The client's queue and the server: activation with the setting on and the
\* record of the day on disk, then the submit command, the reset of the
\* stats, the answers to the client's requests, which the server stores when
\* it accepts them, and the direct method of the timers and of the command's
\* fallback, whose health check (fixedFetch, another transport than the
\* client's) fails throughout.  Every request is answered or times out (5 and
\* 10 seconds) before the next timer of startAutoSync is due.
InitPending ==
    InitClientWith({StatsFile([totalPastes |-> 1, totalLinesPasted |-> 3,
                               date |-> toDateString(1),
                               userId |-> "user_7fh2c0d8a"])}, {TRUE})

NextPending ==
    \/ SubmitCommand(PendingCommands)
    \/ ResetStats
    \/ \E op \in syncOps, c \in BOOLEAN : ClientCheckResolves(op, c)
    \/ \E op \in syncOps, a \in {"rejected", "throws"} : ClientPostResolves(op, a)
    \/ \E op \in syncOps : ClientPostStored(op)
    \/ \E t \in syncTimers : SyncTimerFires(t)
    \/ \E op \in syncOps : HealthResolves(op, FALSE)
    \/ syncOps = {} /\ Advance(SYNC_INTERVAL_MS, PendingSteps)

SpecPending == InitPending /\ [][NextPending]_vars

\* Recovery: the server may fail during the first OutageSteps sync intervals
\* and answers every request successfully from then on; the timers keep
\* firing, every request is answered, and time passes until the retry
\* interval has elapsed since the end of the outage.
ServerDown == now <= OutageSteps * SYNC_INTERVAL_MS

HealthAnswers == IF ServerDown THEN BOOLEAN ELSE {TRUE}

AdvanceRetry ==
    /\ syncOps = {}
    /\ Advance(SYNC_INTERVAL_MS, OutageSteps + RetryMs \div SYNC_INTERVAL_MS)

InitRetry == InitWith({<<DocApp>>}, {TextFoo})

NextRetry ==
    \/ \E t \in syncTimers : SyncTimerFires(t)
    \/ \E op \in syncOps, ok \in HealthAnswers : HealthResolves(op, ok)
    \/ ServerDown /\ \E op \in syncOps, a \in {"rejected", "throws"} :
                         PostResolves(op, a)
    \/ \E op \in syncOps : PostStored(op)
    \/ \E r \in HealthAnswers : CheckServer(r)
    \/ AdvanceRetry

SpecRetry ==
    /\ InitRetry
    /\ [][NextRetry]_vars
    /\ WF_vars(\E t \in syncTimers : SyncTimerFires(t))
    /\ WF_vars(\E op \in syncOps, ok \in HealthAnswers : HealthResolves(op, ok))
    /\ WF_vars(\E op \in syncOps : PostStored(op))
    /\ WF_vars(AdvanceRetry)

\* The shortcut flag and its timers, under fair scheduling: a callback that
\* is due runs, and time passes.  Edits stop after FlagSteps ticks; the timers
\* they started still run out.
FlagBatches == {<<Change(t, RangeEmpty)>> : t \in {"x", "v", TextEleven}}

InitFlag == InitWith({<<DocApp>>}, {"zzz"})

EditsGoOn == now <= FlagSteps * Tick

AdvanceFlag == Advance(Tick, FlagSteps + FlagResetMs \div Tick)

NextFlag ==
    \/ EditsGoOn /\ \E cs \in FlagBatches : ChangeEvent(DocApp, cs)
    \/ \E h \in suspended : ClipboardResolves(h)
    \/ \E t \in resetTimers : TimerFires(t)
    \/ AdvanceFlag

SpecFlag ==
    /\ InitFlag
    /\ [][NextFlag]_vars
    /\ WF_vars(\E t \in resetTimers : TimerFires(t))
    /\ WF_vars(AdvanceFlag)

\* ---------------------------------------------------------------- claims
\* The classifications of the step just taken, one per change the loop reached.
Classified == DOMAIN lastRun.results

Inserted(i) == lastRun.results[i].change.text

Replaced(i) == lastRun.results[i].change.range

JudgedPaste(i) == lastRun.results[i].isPaste

NoNewline(t) == \A k \in 1..Len(t) : SubSeq(t, k, k) # "\n"

Lines(t) == Cardinality({k \in 1..Len(t) : SubSeq(t, k, k) = "\n"}) + 1

Columns(r) ==
    IF r.end.character >= r.start.character
    THEN r.end.character - r.start.character
    ELSE r.start.character - r.end.character

\* The clipboard read is non-empty and its first 20 characters occur in t.
MatchesClipboard(t) ==
    /\ lastRun.clip # ""
    /\ \E k \in 1..Len(t) :
           /\ k + Min(Len(lastRun.clip), 20) - 1 <= Len(t)
           /\ SubSeq(t, k, k + Min(Len(lastRun.clip), 20) - 1)
                  = SubSeq(lastRun.clip, 1, Min(Len(lastRun.clip), 20))

\* C1 (as claimed): an inserted text that carries an AI-attribution marker is
\* never classified as a paste and never counted, whatever the clipboard, the
\* size, the replaced range and the paste-shortcut flag.
C1_MarkerNeverPaste ==
    \A i \in Classified :
        (\E m \in {"// Generated by", "// Suggested by", "// Copilot suggestion"} :
            Includes(Inserted(i), m))
        => (~JudgedPaste(i) /\ lastRun.pastes = 0)

\* The documents of the model that are not editable code documents: another
\* URI scheme, a URI naming a debug-console pane, a denied language tag.
C2_Ignored == {DocOutput, DocDebugPane, DocReadme}

\* C2: a change event of a document that is not an editable code document
\* returns before the throttle and the clipboard read, so it is never
\* classified and never counted, even when it inserts the clipboard's text.
C2_IgnoredNeverClassified ==
    /\ (lastEvent.outcome # "none" /\ lastEvent.document \in C2_Ignored)
           => lastEvent.outcome \notin {"noChanges", "suspended"}
    /\ \A h \in suspended : h.document \notin C2_Ignored

\* C2 witness: the ignored document is the active one, tracking is on, the
\* throttle is open and the inserted text is the clipboard's content.
C2_Witness ==
    /\ lastEvent.outcome = "notEditable"
    /\ lastEvent.document \in C2_Ignored
    /\ lastEvent.changes # <<>>
    /\ lastEvent.changes[1].text = clipboard
    /\ isTracking
    /\ now - lastEditTime >= 300

\* C3: an inserted text shorter than 5 characters without a newline is never
\* classified as a paste, regardless of clipboard, range and shortcut flag.
C3_TinyNeverPaste ==
    \A i \in Classified :
        (Len(Inserted(i)) < 5 /\ NoNewline(Inserted(i)))
            => (~JudgedPaste(i) /\ lastRun.pastes = 0)

\* C3 witness: a 4-character text equal to the clipboard, replacing a wide
\* range while the shortcut flag is set, is not a paste.
C3_Witness ==
    /\ lastRun.arrived >= 0
    /\ lastRun.flag
    /\ lastRun.clip = "abcd"
    /\ Classified = {1}
    /\ Inserted(1) = "abcd"
    /\ Columns(Replaced(1)) = 15
    /\ ~JudgedPaste(1)

\* C4 (as claimed): in a processed edit of an editable document, a text of at
\* least 5 characters without AI marker that contains the first 20 characters
\* of a non-empty clipboard is a paste, counted with its number of lines.
C4_ClipboardMatchSuffices ==
    \A i \in Classified :
        (/\ Len(Inserted(i)) >= 5
         /\ ~isCopilotCode(Inserted(i))
         /\ MatchesClipboard(Inserted(i)))
        => (/\ JudgedPaste(i)
            /\ lastRun.pastes = 1
            /\ lastRun.lines = Lines(Inserted(i)))

\* C5 (as claimed): 80 characters on one line replacing a range 15 columns
\* wide, with a clipboard that does not match and no shortcut flag, is a
\* paste by the bulk rule, counted as one line.
C5_WideRangeBulkPaste ==
    \A i \in Classified :
        (/\ Len(Inserted(i)) = 80
         /\ NoNewline(Inserted(i))
         /\ Columns(Replaced(i)) = 15
         /\ ~MatchesClipboard(Inserted(i))
         /\ ~lastRun.flag)
        => (/\ JudgedPaste(i)
            /\ lastRun.results[i].detected
            /\ lastRun.pastes = 1
            /\ lastRun.lines = 1)

\* C6 (as claimed): without clipboard match and without shortcut flag, an edit
\* that passes the pre-filters is a paste exactly when its text is longer than
\* 50 characters and spans more than 2 lines or replaces more than 10 columns.
C6_BulkRuleExactly ==
    \A i \in Classified :
        (/\ ~MatchesClipboard(Inserted(i))
         /\ ~lastRun.flag
         /\ ~isCopilotCode(Inserted(i))
         /\ ~(Len(Inserted(i)) < 5 /\ NoNewline(Inserted(i))))
        => (JudgedPaste(i) <=>
               /\ Len(Inserted(i)) > 50
               /\ (Lines(Inserted(i)) > 2 \/ Columns(Replaced(i)) > 10))

\* C4, C5, C6: the three rules do hold of every classification during whose
\* clipboard read the active editor stayed on the edited document.
RuleWhileEditorKept ==
    lastRun.editorKept
        => (C4_ClipboardMatchSuffices /\ C5_WideRangeBulkPaste /\ C6_BulkRuleExactly)

\* An edit accepted on the strength of the shortcut flag alone.
ByShortcut(i) == JudgedPaste(i) /\ ~lastRun.results[i].detected

\* C7 (as claimed): an edit is accepted by shortcut corroboration only when a
\* shortcut was detected within the 300ms before it is classified, and its
\* text is longer than 10 characters or contains a newline.
C7_ShortcutWithin300 ==
    \A i \in Classified :
        ByShortcut(i)
            => (/\ lastRun.detectAt >= 0
                /\ now - lastRun.detectAt <= 300
                /\ (Len(Inserted(i)) > 10 \/ ~NoNewline(Inserted(i))))

\* C7 (amended): the same with the flag's 500ms of validity in place of 300ms.
C7_ShortcutWithin500 ==
    \A i \in Classified :
        ByShortcut(i)
            => (/\ lastRun.detectAt >= 0
                /\ now - lastRun.detectAt <= 500
                /\ (Len(Inserted(i)) > 10 \/ ~NoNewline(Inserted(i))))

\* C7 witness: an edit accepted by the shortcut rule 400ms or more after the
\* detection.
C7_Witness ==
    \E i \in Classified :
        ByShortcut(i) /\ lastRun.detectAt >= 0 /\ now - lastRun.detectAt > 300

\* C8: a text of at most 10 characters without a newline that the clipboard
\* does not match is never a paste, even while the shortcut flag is set.
C8_ShortcutNeverSoleTrigger ==
    \A i \in Classified :
        (/\ Len(Inserted(i)) <= 10
         /\ NoNewline(Inserted(i))
         /\ ~MatchesClipboard(Inserted(i)))
        => (~JudgedPaste(i) /\ lastRun.pastes = 0)

\* C8 witness: a 10-character text classified while the flag is set.
C8_Witness ==
    /\ lastRun.flag
    /\ Classified = {1}
    /\ Len(Inserted(1)) = 10
    /\ ~MatchesClipboard(Inserted(1))
    /\ ~JudgedPaste(1)

\* C9 (as claimed): after a shortcut detection the flag stays set for the full
\* 500ms that follow it, unless a counted paste consumes it.
C9_FlagValidFor500 ==
    (lastDetect >= 0 /\ ~consumed /\ now < lastDetect + 500)
        => lastPasteKeyCombination

\* The latest event that passed the throttle arrived less than 300ms ago.
C10_TooSoon ==
    admitted # <<>> /\ now - admitted[Len(admitted)] < 300

\* C10: a change event that arrives less than 300ms after the previous
\* processed event is skipped entirely (no clipboard read, pasteStats and
\* lastEditTime unchanged), and the events that are classified arrived at
\* least 300ms apart.
C10_Throttle ==
    /\ [](\A i, j \in DOMAIN admitted : i < j => admitted[j] - admitted[i] >= 300)
    /\ [][(lastEvent'.outcome # "none" /\ C10_TooSoon)
             => UNCHANGED <<pasteStats, lastEditTime, suspended, admitted>>]_vars

\* C10 witness: an event that arrived 100 or 200ms after a processed one and
\* was throttled.
C10_Witness ==
    /\ lastEvent.outcome = "throttled"
    /\ C10_TooSoon
    /\ now - admitted[Len(admitted)] > 0

\* C11 (as claimed): within one change event only the first change that is
\* not skipped as small is classified; every later change is ignored, whether
\* or not that first one was judged a paste.
C11_OnlyFirstQualifying ==
    \A i, j \in Classified :
        (i < j /\ ~lastRun.results[i].skipped) => lastRun.results[j].skipped

\* C11 (amended): the changes of one event are classified in order until the
\* first one judged a paste; that one is counted, with its lines, and nothing
\* after it is reached; a change that is not judged a paste does not stop the
\* loop.
C11_UntilFirstPaste ==
    /\ lastRun.pastes \in {0, 1}
    /\ lastRun.counted # 0 =>
           /\ Len(lastRun.results) = lastRun.counted
           /\ JudgedPaste(lastRun.counted)
           /\ \A i \in Classified : i < lastRun.counted => ~JudgedPaste(i)
           /\ lastRun.pastes = 1
           /\ lastRun.lines = Lines(Inserted(lastRun.counted))
    /\ lastRun.counted = 0 =>
           /\ \A i \in Classified : ~JudgedPaste(i)
           /\ lastRun.pastes = 0
           /\ ~lastRun.error => Len(lastRun.results) = Len(lastRun.changes)

\* C11 witness: the first qualifying change was classified and not judged a
\* paste, and the change after it was classified and counted.
C11_Witness ==
    /\ lastRun.counted = 2
    /\ ~lastRun.results[1].skipped
    /\ ~JudgedPaste(1)
    /\ lastRun.pastes = 1

C13_ErrorsNotCounted ==
    [][lastRun'.error =>
          /\ UNCHANGED <<pasteStats, statsFile, isTracking, lastEditTime,
                         lastPasteKeyCombination, lastKeypressTime, resetTimers,
                         activeTextEditor, clipboard>>
          /\ suspended' \subseteq suspended
          /\ suspended' # suspended]_vars

\* C13 witness: after a handler failed on a change without text, a later
\* event is classified and counted.
C13_Witness ==
    /\ failed
    /\ ~lastRun.error
    /\ lastRun.pastes = 1
    /\ lastRun.lines = 3

\* The decision the loop would take if the event just classified were
\* classified again now, with the clipboard it was classified with.
Redecided == CountedIndex(lastRun.changes, lastRun.clip)

\* C14 (as claimed): classifying the same event again straight away, with the
\* same clipboard and document, gives the same decision as the first time.
C14_Idempotent ==
    [][(lastRun'.arrived >= 0 /\ ~lastRun'.error)
          => Redecided' = lastRun'.counted]_vars

\* C14 (amended): the second decision is the first one when the first counted
\* nothing or counted a change isProbablyPaste detected; a classification
\* that counts nothing changes nothing but the set of suspended handlers.
C14_IdempotentUnlessFlagConsumed ==
    [][(lastRun'.arrived >= 0 /\ ~lastRun'.error) =>
          /\ (lastRun'.counted = 0 \/ lastRun'.results[lastRun'.counted].detected)
                 => Redecided' = lastRun'.counted
          /\ lastRun'.counted = 0 =>
                 UNCHANGED <<pasteStats, statsFile, lastPasteKeyCombination,
                             lastEditTime, lastKeypressTime, isTracking>>]_vars

\* C14 witness: a change detected by the clipboard was counted while the flag
\* was set, and a classification that counted nothing ran with the flag set.
C14_Witness ==
    /\ lastRun.flag
    /\ \/ lastRun.counted # 0 /\ lastRun.results[lastRun.counted].detected
       \/ lastRun.arrived >= 0 /\ ~lastRun.error /\ lastRun.counted = 0
              /\ lastRun.results # <<>> /\ lastPasteKeyCombination

\* C15 (as claimed): at most one paste handler is suspended at the clipboard
\* read at any time.
C15_AtMostOneInFlight == Cardinality(suspended) <= 1

\* C16 (as claimed): a paste is never added to counters whose date is not the
\* current date.
C16_NeverCountedOnStaleDate ==
    lastRun.counted # 0 => pasteStats.date = toDateString(today)

\* C17 (as claimed): stats.json always holds the record in memory, and a
\* restart on the day the file was last written restores that record.
C17_PersistsAcrossRestart ==
    /\ [](statsFile.exists /\ statsFile.kind = "json"
             /\ JSONparse(statsFile.pairs) = pasteStats)
    /\ [][(lastEvent'.outcome = "activated" /\ savedOn = today)
             => pasteStats' = pasteStats]_vars

\* C16, C17: a restart does restore the record whenever its date is the
\* current day.
RestartRestoresCurrentRecord ==
    [][(lastEvent'.outcome = "activated" /\ pasteStats.date = toDateString(today))
          => pasteStats' = pasteStats]_vars

\* C18 (as claimed): no paste is counted while tracking is switched off.
C18_NoCountWhileDisabled == lastRun.counted # 0 => isTracking

\* C19 (as claimed): while the setting is false and the submit command has
\* not been invoked, no POST /api/submit is sent.
C19_NoPostWhileDisabled == \A p \in posts : p.enabled \/ p.invoked

\* C20 (as claimed): the collection holds at most one document per userId.
C20_OneRecordPerUser ==
    \A i, j \in DOMAIN collection :
        collection[i].userId = collection[j].userId => i = j

\* The step just taken was a change event.
IsChangeEvent == lastEvent.outcome \notin {"none", "activated"}

\* The first content change of the event just handled inserts exactly "v".
FirstInsertsV ==
    /\ lastEvent.changes # <<>>
    /\ HasText(lastEvent.changes[1])
    /\ lastEvent.changes[1].text = "v"

\* C22 (as claimed): the flag becomes true only through a change event whose
\* first content change inserts exactly "v" and that arrives less than 300ms
\* after the previous change event the keyboard listener recorded; every event
\* the listener records advances the last-keypress time; nothing else sets
\* the flag.
C22_FlagOnlyByRapidV ==
    [][/\ (lastPasteKeyCombination' /\ ~lastPasteKeyCombination)
              => /\ IsChangeEvent'
                 /\ FirstInsertsV'
                 /\ keySeen
                 /\ now - lastKeypressTime < 300
       /\ (IsChangeEvent' /\ lastEvent'.changes # <<>> /\ activeTextEditor # <<>>)
              => lastKeypressTime' = now]_vars

\* C22: the same, with the load of the module standing in for the previous
\* event while the listener has recorded none.
FlagOnlyByRapidVSinceLoad ==
    [][/\ (lastPasteKeyCombination' /\ ~lastPasteKeyCombination)
              => /\ IsChangeEvent'
                 /\ FirstInsertsV'
                 /\ activeTextEditor # <<>>
                 /\ now - lastKeypressTime < 300
       /\ (IsChangeEvent' /\ lastEvent'.changes # <<>> /\ activeTextEditor # <<>>)
              => lastKeypressTime' = now]_vars

\* C23: the flag is set only during the 500ms that follow the most recent
\* shortcut detection, and whenever it is set it is cleared again.
C23_FlagAutoClears ==
    /\ [](lastPasteKeyCombination
             => (lastDetect >= 0 /\ now - lastDetect <= 500))
    /\ [](lastPasteKeyCombination => <>(~lastPasteKeyCombination))

\* C23 witness: the timer of the most recent detection, and no paste, cleared
\* the flag 500ms after that detection.
C23_Witness ==
    /\ ~lastPasteKeyCombination
    /\ lastDetect >= 0
    /\ ~consumed
    /\ now = lastDetect + 500
    /\ resetTimers = {}
    /\ lastEvent = NoEvent
    /\ lastRun = NoRun

\* C24: a counted paste leaves the flag reset, and a paste accepted on the
\* flag alone is counted only when a shortcut was detected and no paste has
\* been counted since that detection, whatever the order in which the
\* suspended handlers resume.
C24_OnePastePerDetection ==
    [][lastRun'.counted # 0 =>
          /\ ~lastPasteKeyCombination'
          /\ consumed'
          /\ ~lastRun'.results[lastRun'.counted].detected
                 => (lastDetect >= 0 /\ ~consumed /\ lastPasteKeyCombination)]_vars

\* C24 witness: two handlers were suspended with an 11-character edit each
\* when a shortcut was detected; the first to resume was counted on the flag,
\* and the second, resumed while the timer of that detection is still
\* pending, is not counted.
C24_Witness ==
    /\ lastRun.arrived >= 0
    /\ lastRun.counted = 0
    /\ ~lastRun.flag
    /\ lastRun.changes # <<>>
    /\ Len(lastRun.changes[1].text) > 10
    /\ consumed
    /\ pasteStats.totalPastes = 1
    /\ lastDetect >= 0
    /\ lastDetect + 500 \in resetTimers

\* C25: one change event adds at most 1 to totalPastes, and exactly 1 when
\* any change the loop reaches is judged a paste.
C25_AtMostOnePerEvent ==
    [][lastRun'.arrived >= 0 =>
          /\ pasteStats'.totalPastes - pasteStats.totalPastes \in {0, 1}
          /\ pasteStats'.totalPastes - pasteStats.totalPastes
                 = (IF lastRun'.counted = 0 THEN 0 ELSE 1)]_vars

\* C25 witness: both changes of the event satisfy the paste rules on their
\* own, and the event counted one paste.
C25_Witness ==
    /\ lastRun.counted = 1
    /\ Len(lastRun.changes) = 2
    /\ isProbablyPaste(lastRun.changes[1], lastRun.clip)
    /\ isProbablyPaste(lastRun.changes[2], lastRun.clip)
    /\ lastRun.pastes = 1
    /\ pasteStats.totalPastes = 1

\* C21: once a submission has been queued, and with the server answering
\* every health check and POST successfully from some time on while the
\* interval of startAutoSync keeps firing, offlineMode becomes false and
\* pendingSubmissions empty.
C21_QueueEventuallyFlushed ==
    [](pendingSubmissions # <<>>
          => <>(~offlineMode /\ pendingSubmissions = <<>>))

\* C21 witness: the sync that fired once 30 minutes had passed since the
\* failed attempt connected again and emptied a queue of seven snapshots.
C21_Witness ==
    /\ lastCall.returned = "true"
    /\ Len(lastCall.cleared) >= 7
    /\ now >= 1800000
    /\ ~offlineMode
    /\ pendingSubmissions = <<>>

\* pendingSubmissions has grown by one snapshot of the stats, taken now.
QueuedOne ==
    pendingSubmissions' =
        Append(pendingSubmissions, [stats |-> pasteStats, timestamp |-> now])

\* The step has sent no request of submitToLeaderboard.
NothingSent ==
    /\ posts' = posts
    /\ \A op \in syncOps' \ syncOps : op.kind \notin {"health", "post"}

\* C26: a call of submitToLeaderboard while offlineMode is true and less than
\* 30 minutes have passed since the last connection attempt sends nothing,
\* queues exactly one snapshot of the current stats, returns false and leaves
\* offlineMode and lastConnectionAttempt as they were.
C26_OfflineGating ==
    [][(lastCall'.entered /\ offlineMode /\ now - lastConnectionAttempt < 1800000)
          => /\ NothingSent
             /\ QueuedOne
             /\ lastCall'.returned = "false"
             /\ UNCHANGED <<offlineMode, lastConnectionAttempt>>]_vars

\* C26 witness: a sync 270 seconds after the failed one queued a second
\* snapshot, of stats that count a paste.
C26_Witness ==
    /\ lastCall.entered
    /\ lastCall.returned = "false"
    /\ offlineMode
    /\ now - lastConnectionAttempt > 0
    /\ now - lastConnectionAttempt < 1800000
    /\ Len(pendingSubmissions) >= 2
    /\ pendingSubmissions[Len(pendingSubmissions)].stats = pasteStats
    /\ pendingSubmissions[Len(pendingSubmissions)].timestamp = now
    /\ pasteStats.totalPastes >= 1
    /\ syncOps = {}

\* C27: when submitToLeaderboard returns true the queue is empty and
\* offlineMode is false, and the queue never loses an entry in any other step.
C27_EmptiedOnlyBySuccess ==
    [][/\ lastCall'.returned = "true"
              => (pendingSubmissions' = <<>> /\ ~offlineMode')
       /\ Len(pendingSubmissions') < Len(pendingSubmissions)
              => (lastCall'.returned = "true" /\ lastCall'.answer = "ok")
       /\ Len(pendingSubmissions') >= Len(pendingSubmissions)
              => SubSeq(pendingSubmissions', 1, Len(pendingSubmissions))
                     = pendingSubmissions]_vars

\* C27 witness: an accepted POST emptied a queue that held the snapshot of
\* a counted paste.
C27_Witness ==
    /\ lastCall.returned = "true"
    /\ lastCall.cleared # <<>>
    /\ lastCall.cleared[1].stats.totalPastes >= 1
    /\ pendingSubmissions = <<>>
    /\ ~offlineMode

\* C28: a failed health check sends no POST, sets offlineMode, queues exactly
\* one snapshot and returns false; a POST that throws after a passed health
\* check sets offlineMode, queues exactly one snapshot and returns false.
C28_FailuresQueueOnce ==
    [][/\ (lastCall'.step = "health" /\ lastCall'.answer = "fails")
              => /\ NothingSent
                 /\ offlineMode'
                 /\ QueuedOne
                 /\ lastCall'.returned = "false"
       /\ (lastCall'.step = "post" /\ lastCall'.answer = "throws")
              => /\ offlineMode'
                 /\ QueuedOne
                 /\ lastCall'.returned = "false"]_vars

\* C28 witness: the health check passed while offlineMode was false, the POST
\* threw, and its snapshot joined one a failed health check had queued.
C28_Witness ==
    /\ lastCall.step = "post"
    /\ lastCall.answer = "throws"
    /\ offlineMode
    /\ Len(pendingSubmissions) >= 2
    /\ pendingSubmissions[Len(pendingSubmissions)].stats = pasteStats
    /\ pasteStats.totalPastes >= 1

\* C29 (as claimed): after the submit that empties the queue, the totals the
\* server holds for the user are at least those of every snapshot that was in
\* the queue.
C29_QueuedStatsSubmitted ==
    lastCall.returned = "true" =>
        \A i \in DOMAIN lastCall.cleared :
            LET queued == lastCall.cleared[i].stats
                k == findOne(queued.userId)
            IN  /\ k # 0
                /\ collection[k].totalPastes >= queued.totalPastes
                /\ collection[k].totalLinesPasted >= queued.totalLinesPasted

\* C30: while the client is in offline mode and less than 30 minutes have
\* passed since its last connection attempt, checkServerAvailability contacts
\* no endpoint and leaves offlineMode and lastConnectionAttempt as they were,
\* and submitStats appends its stats to the client's queue and returns false
\* without sending a POST.
C30_ClientRetryInterval ==
    [][(/\ lastCall'.step = "command"
        /\ client.offlineMode
        /\ now - client.lastConnectionAttempt < 1800000)
          => /\ ~lastCall'.checked
             /\ \A op \in syncOps' \ syncOps :
                    op.kind \notin {"clientCheck", "clientPost"}
             /\ \A p \in posts' \ posts : p.via \notin {"client", "clientPending"}
             /\ client'.offlineMode = client.offlineMode
             /\ client'.lastConnectionAttempt = client.lastConnectionAttempt
             /\ client'.pendingSubmissions
                    = Append(client.pendingSubmissions, pasteStats)
             /\ lastCall'.submitStats = "false"]_vars

\* C30 witness: the check of initialize failed at activation; 30 seconds or
\* more later the submit command ran, the client contacted nothing and queued
\* stats that count a paste.
C30_Witness ==
    /\ lastCall.step = "command"
    /\ lastCall.submitStats = "false"
    /\ ~lastCall.checked
    /\ client.offlineMode
    /\ now - client.lastConnectionAttempt > 0
    /\ now - client.lastConnectionAttempt < 1800000
    /\ client.pendingSubmissions = <<pasteStats>>
    /\ pasteStats.totalPastes >= 1

\* C31: submitPendingData posts one request, whose body is the submission
\* queued last, and leaves the queue as it is while the request is awaited;
\* when the server accepts the request the whole queue is emptied, and when
\* the request fails (a status that is not ok, or no connection) the queue is
\* left exactly as it was.
C31_PendingLatestOnly ==
    [][/\ (/\ lastCall'.step = "clientCheck"
           /\ lastCall'.answer = "ok"
           /\ client.offlineMode
           /\ client.pendingSubmissions # <<>>)
          => LET queue == client.pendingSubmissions
                 sent == {op \in syncOps' \ syncOps : op.kind = "clientPost"}
             IN  /\ lastCall'.body = ClientBody(queue[Len(queue)])
                 /\ \A op \in sent : op.next = "pending"
                                        /\ op.body = ClientBody(queue[Len(queue)])
                 /\ \A p \in posts' \ posts :
                        p.via = "clientPending"
                            /\ p.body = ClientBody(queue[Len(queue)])
                 /\ \E op \in syncOps' : op.kind = "clientPost"
                                            /\ op.next = "pending"
                                            /\ op.body = ClientBody(queue[Len(queue)])
                 /\ client'.pendingSubmissions = queue
       /\ (lastCall'.step = "clientPending" /\ lastCall'.answer = "ok")
          => client'.pendingSubmissions = <<>>
       /\ (lastCall'.step = "clientPending" /\ lastCall'.answer # "ok")
          => client'.pendingSubmissions = client.pendingSubmissions]_vars

\* C31 witness: the server accepted the request of submitPendingData, whose
\* body was the later of two different queued submissions, and the queue of
\* both is empty.
C31_Witness ==
    /\ lastCall.step = "clientPending"
    /\ lastCall.answer = "ok"
    /\ Len(lastCall.cleared) = 2
    /\ lastCall.cleared[1] # lastCall.cleared[2]
    /\ lastCall.body = ClientBody(lastCall.cleared[2])
    /\ client.pendingSubmissions = <<>>

\* C31 witness: the request of submitPendingData failed and the queue of two
\* submissions is as it was.
C31_WitnessFailed ==
    /\ lastCall.step = "clientPending"
    /\ lastCall.answer \in {"rejected", "throws"}
    /\ Len(client.pendingSubmissions) = 2
    /\ lastCall.body = ClientBody(client.pendingSubmissions[2])

\* The totals the server holds for the user of body.
StoredTotals(body) ==
    LET k == findOne(body.userId)
    IN  [totalPastes |-> collection[k].totalPastes,
         totalLinesPasted |-> collection[k].totalLinesPasted]

\* C32 (as claimed): when the server has stored the POST of a submitStats
\* call and then the POST of submitPendingData that was sent before that
\* call and was still awaited during it, and no POST of the client is
\* awaited any more, the server's totals for the user are the stats passed
\* to that submitStats call.
C32_PendingNeverOverwrites ==
    LET n == Len(accepted)
    IN  (/\ n >= 2
         /\ accepted[n].via = "clientPending"
         /\ accepted[n - 1].via = "client"
         /\ accepted[n].call < accepted[n - 1].call
         /\ accepted[n].at = received
         /\ \A op \in syncOps : op.kind # "clientPost")
        => StoredTotals(accepted[n - 1].body)
               = [totalPastes |-> accepted[n - 1].body.totalPastes,
                  totalLinesPasted |-> accepted[n - 1].body.totalLinesPasted]
====
